---- MODULE Spec2Model ----
(***************************************************************************)
(* A model of PhenoTipsBot (src/phenotipsbot.py), the client of a          *)
(* PhenoTips server, and of the CSV exporter (src/export-csv.py).          *)
(*                                                                         *)
(* Python strings that the code inspects character by character (page      *)
(* names, content-type headers) are sequences of one-character strings.    *)
(* Python's None is the value None below, which is no such sequence.       *)
(***************************************************************************)
EXTENDS Integers, Sequences, FiniteSets, TLC

VARIABLES
    \* ---- PhenoTipsBot.qualify / PhenoTipsBot.unqualify applied to one name
    pagename,      \* the name handed to qualify
    namespace,     \* the namespace handed to qualify and unqualify
    qualified,     \* qualify(pagename, namespace)
    requalified,   \* qualify(qualified, namespace)
    unqualified,   \* unqualify(qualified, namespace)
    npc,           \* which of the calls have been made
    \* ---- export_patients(bot, patient_ids, out_file, progress_callback)
    patient_ids,   \* the list of patient IDs handed in
    classProps,    \* the server: the property names of PhenoTips.PatientClass, in its order
    prop_names,    \* local prop_names (None before the schema was fetched)
    pos,           \* the for loop's position in patient_ids (elements taken so far)
    count,         \* local count
    n_exported,    \* local n_exported
    out_file,      \* the rows written to out_file so far
    etrace,        \* what export_patients did so far, in order
    ret,           \* the count export_patients returned (None before)
    epc,           \* where export_patients is
    \* ---- the clients (PhenoTipsBot instances) and the server they talk to
    srv,           \* the server: what it holds for each patient ID
    instDriver,    \* per client: its instance attribute driver (0: not assigned)
    classDriver,   \* the class attribute PhenoTipsBot.driver (0: None)
    sessions,      \* the browser sessions created so far, none ever quit
    cap,           \* DesiredCapabilities.PHANTOMJS[...customHeaders.authorization]
    last           \* the last operation: its arguments, calls, exception, result

namesVars == <<pagename, namespace, qualified, requalified, unqualified, npc>>

exportVars ==
    <<patient_ids, classProps, prop_names, pos, count, n_exported, out_file,
      etrace, ret, epc>>

clientVars == <<srv, instDriver, classDriver, sessions, cap, last>>

vars == <<namesVars, exportVars, clientVars>>

(***************************************************************************)
(* Python values                                                           *)
(***************************************************************************)

\* Python's None: a one-element tuple whose element is no character.
None == <<"None">>

\* s.startswith(p)
StartsWith(s, p) == Len(p) <= Len(s) /\ SubSeq(s, 1, Len(p)) = p

\* c in s
Contains(s, c) == \E i \in 1..Len(s) : s[i] = c

\* s[k:]
DropFirst(s, k) == SubSeq(s, k + 1, Len(s))

\* The string literals of qualify and unqualify.
XWIKI_COLON == <<"x", "w", "i", "k", "i", ":">>
DOT == <<".">>

\* The namespaces the client passes: the default 'XWiki', 'Studies', 'data'.
NS_XWiki == <<"X", "W", "i", "k", "i">>
NS_Studies == <<"S", "t", "u", "d", "i", "e", "s">>
NS_data == <<"d", "a", "t", "a">>
Namespaces == {NS_XWiki, NS_Studies, NS_data}

(***************************************************************************)
(* PhenoTipsBot.qualify and PhenoTipsBot.unqualify                         *)
(***************************************************************************)

\* A plausible slip: the namespace is prepended without looking for a '.'.
qualify_always_prefixes(name, ns) ==
    IF name = None \/ name = <<>> THEN name
    ELSE LET p1 == ns \o DOT \o name
         IN  IF ~Contains(p1, ":") THEN XWIKI_COLON \o p1 ELSE p1

qualify(name, ns) ==
    IF name = None \/ name = <<>> THEN name
    ELSE LET p1 == IF ~Contains(name, ".") THEN ns \o DOT \o name ELSE name
         IN  IF ~Contains(p1, ":") THEN XWIKI_COLON \o p1 ELSE p1

\* A plausible slip: only the wiki prefix is stripped, the namespace stays.
unqualify_keeps_namespace(name, ns) ==
    IF StartsWith(name, XWIKI_COLON)
    THEN DropFirst(name, Len(XWIKI_COLON))
    ELSE None

unqualify(name, ns) ==
    IF StartsWith(name, XWIKI_COLON \o ns \o DOT)
    THEN DropFirst(name, Len(XWIKI_COLON) + Len(ns) + Len(DOT))
    ELSE IF StartsWith(name, XWIKI_COLON)
         THEN DropFirst(name, Len(XWIKI_COLON))
         ELSE None

(***************************************************************************)
(* The PhenoTips server, as far as the client's requests read and change   *)
(* it.  A patient that exists has a PatientClass object (data), and may    *)
(* have an owner, a study binding (StudyBindingClass/0), a pedigree and    *)
(* the VCF object the edit view adds.  None stands for "no such object".   *)
(***************************************************************************)
PatientIdSeq == <<"P0000001", "P0000002">>
PatientIds == { PatientIdSeq[i] : i \in 1..Len(PatientIdSeq) }

NoPatient ==
    [exists |-> FALSE, data |-> <<>>, study |-> None, owner |-> None,
     pedigree |-> None, vcf |-> FALSE, objects |-> <<>>]

NewPatient == [NoPatient EXCEPT !.exists = TRUE]

\* Status codes.  requests follows redirects itself; a 300 (Multiple Choices)
\* carries no Location and reaches the client as it is.
OK_200 == 200
MULTIPLE_CHOICES_300 == 300
FORBIDDEN_403 == 403
NOT_FOUND_404 == 404
SERVER_ERROR_500 == 500

\* The status a request may be answered with whatever the server holds.
FaultStatuses == {SERVER_ERROR_500}

\* The string literals of the object classes and of object number 0.
PatientClass == "PhenoTips.PatientClass"
OwnerClass == "PhenoTips.OwnerClass"
StudyBindingClass == "PhenoTips.StudyBindingClass"
ObjectZero == "0"
CollaboratorClass == "PhenoTips.CollaboratorClass"
RelativeClass == "PhenoTips.RelativeClass"
VcfClass == "PhenoTips.VCF"

\* The classes a patient may hold several objects of.
SubObjectClasses == {CollaboratorClass, RelativeClass, VcfClass}

\* A patient's objects of these classes are the sequence objects, in the
\* order of their creation; the number of an object is the count of the
\* earlier ones of its class, and a deleted object keeps its place, so that
\* a number is never given twice.  Numbers travel as decimal strings.
NumStr(n) == <<"0", "1", "2", "3", "4", "5">>[n + 1]

ObjectNumber(objects, k) ==
    NumStr(Cardinality({ j \in 1..(k - 1) : objects[j].cls = objects[k].cls }))

NextNumber(objects, cls) ==
    NumStr(Cardinality({ j \in 1..Len(objects) : objects[j].cls = cls }))

\* The places of the live objects of class cls numbered num: one or none.
LiveObjects(objects, cls, num) ==
    { k \in 1..Len(objects) :
        objects[k].cls = cls /\ objects[k].live /\ ObjectNumber(objects, k) = num }

\* URLs, by their parts: the path up to the patient, then what follows it.
PatientsUrl == <<"/rest/patients">>
ObjectsUrl(p) == <<"/rest/wikis/xwiki/spaces/data/pages/", p, "/objects">>
ObjectUrl(p, cls, num) ==
    <<"/rest/wikis/xwiki/spaces/data/pages/", p, "/objects/", cls, "/", num>>
EditUrl(p) == <<"/bin/edit/data/", p>>
EidUrl(eid) == <<"/rest/patients/eid/", eid>>
PedigreeEditorUrl(p) == <<"/bin/", p, "?sheet=PhenoTips.PedigreeEditor">>

\* 'property#' + key
PropKey(key) == <<"property#", key>>

\* data['property#' + key] = value for every item of a dictionary, which is
\* a sequence of <<key, value>> pairs here.
FormData(obj) == [i \in 1..Len(obj) |-> <<PropKey(obj[i][1]), obj[i][2]>>]

\* The value a form sends for a property, None when it sends none.
FormValue(form, key) ==
    IF \E i \in 1..Len(form) : form[i][1] = PropKey(key)
    THEN form[CHOOSE i \in 1..Len(form) : form[i][1] = PropKey(key)][2]
    ELSE None

\* The dictionary of a PatientClass object after a form was PUT to it.
FormObject(form) == [i \in 1..Len(form) |-> <<form[i][1][2], form[i][2]>>]

\* location[location.rfind('/')+1:], the location being a sequence of path
\* segments
LastSegment(location) == location[Len(location)]

\* What the server answers to a request, and what it holds afterwards.
Answer(status, state, location, body) ==
    [status |-> status, srv |-> state, location |-> location, body |-> body]

NotFound(state) == Answer(NOT_FOUND_404, state, <<>>, None)

ServerAnswer(state, method, url, cls, form) ==
    IF url = PatientsUrl /\ method = "POST" THEN
        IF \E p \in PatientIds : ~state[p].exists
        THEN LET i == CHOOSE j \in 1..Len(PatientIdSeq) :
                          /\ ~state[PatientIdSeq[j]].exists
                          /\ \A k \in 1..(j - 1) : state[PatientIdSeq[k]].exists
                 p == PatientIdSeq[i]
             IN  Answer(OK_200, [state EXCEPT ![p] = NewPatient],
                        <<"/rest/patients/", p>>, None)
        ELSE Answer(SERVER_ERROR_500, state, <<>>, None)
    ELSE LET p == url[2] IN
    IF p \notin PatientIds \/ ~state[p].exists THEN NotFound(state)
    ELSE IF url = EditUrl(p) /\ method = "GET" THEN
        Answer(OK_200, [state EXCEPT ![p].vcf = TRUE], <<>>, None)
    ELSE IF url = ObjectsUrl(p) /\ method = "POST" THEN
        IF cls = StudyBindingClass /\ state[p].study = None
        THEN Answer(OK_200,
                    [state EXCEPT ![p].study =
                        IF FormValue(form, "studyReference") = None THEN <<>>
                        ELSE FormValue(form, "studyReference")],
                    ObjectUrl(p, cls, ObjectZero), None)
        ELSE IF cls \in SubObjectClasses
        THEN Answer(OK_200,
                    [state EXCEPT ![p].objects =
                        Append(@, [cls |-> cls, live |-> TRUE])],
                    ObjectUrl(p, cls, NextNumber(state[p].objects, cls)), None)
        ELSE Answer(OK_200, state, ObjectUrl(p, cls, "1"), None)
    ELSE IF url = ObjectUrl(p, PatientClass, ObjectZero) THEN
        IF method = "PUT"
        THEN Answer(OK_200, [state EXCEPT ![p].data = FormObject(form)], <<>>, None)
        ELSE Answer(OK_200, state, <<>>, state[p].data)
    ELSE IF url = ObjectUrl(p, OwnerClass, ObjectZero) THEN
        IF method = "PUT"
        THEN Answer(OK_200,
                    [state EXCEPT ![p].owner = FormValue(form, "owner")], <<>>, None)
        ELSE Answer(OK_200, state, <<>>, state[p].owner)
    ELSE IF url = ObjectUrl(p, StudyBindingClass, ObjectZero) THEN
        IF state[p].study = None THEN NotFound(state)
        ELSE IF method = "GET" THEN Answer(OK_200, state, <<>>, state[p].study)
        ELSE IF method = "PUT" THEN
            Answer(OK_200,
                   [state EXCEPT ![p].study = FormValue(form, "studyReference")],
                   <<>>, None)
        ELSE Answer(OK_200, [state EXCEPT ![p].study = None], <<>>, None)
    ELSE IF /\ Len(url) = 6
            /\ url = ObjectUrl(p, url[4], url[6])
            /\ url[4] \in SubObjectClasses
            /\ method = "DELETE"
            /\ LiveObjects(state[p].objects, url[4], url[6]) # {}
         THEN Answer(OK_200,
                     [state EXCEPT ![p].objects =
                         [k \in 1..Len(@) |->
                             IF k \in LiveObjects(state[p].objects, url[4], url[6])
                             THEN [@[k] EXCEPT !.live = FALSE] ELSE @[k]]],
                     <<>>, None)
    ELSE NotFound(state)

(***************************************************************************)
(* The client's calls.  A call takes the world w it runs in and gives the  *)
(* world after it: the server, the requests made so far (log), the         *)
(* exception in flight (err, "" for none) and the value returned (ret).    *)
(* A call made while an exception is in flight does nothing: the exception *)
(* has left the method.                                                    *)
(***************************************************************************)

\* A returned value: None, a string, or a list of strings.
RetNone == [kind |-> "None", val |-> <<>>]
RetStr(s) == [kind |-> "str", val |-> s]
RetList(l) == [kind |-> "list", val |-> l]

\* F applied to the value of x: x is evaluated once, as a statement's result
\* is computed once before the next statement runs.
Bind(x, F(_)) == CHOOSE r \in { F(y) : y \in {x} } : TRUE

Call(w, name, url, cls, form, status, session) ==
    [call |-> name, url |-> url, cls |-> cls, form |-> form, status |-> status,
     auth |-> w.client, session |-> session]

\* requests.get / post / put / delete with auth=self.auth: the failAt-th call
\* of the operation is answered failStatus and changes nothing; every other
\* one is answered as the server's state has it.
Request(w, method, url, cls, form) ==
    IF w.err # "" THEN w
    ELSE IF Len(w.log) + 1 = w.failAt
    THEN [w EXCEPT !.log = Append(@, Call(w, method, url, cls, form, w.failStatus, 0)),
                   !.status = w.failStatus,
                   !.location = <<>>,
                   !.body = None]
    ELSE Bind(ServerAnswer(w.srv, method, url, cls, form), LAMBDA a :
         [w EXCEPT !.log = Append(@, Call(w, method, url, cls, form, a.status, 0)),
                   !.srv = a.srv,
                   !.status = a.status,
                   !.location = a.location,
                   !.body = a.body])

\* requests.Response.raise_for_status raises HTTPError for 4xx and 5xx.
RaisesForStatus(status) == 400 <= status /\ status < 600

raise_for_status(w, status) ==
    IF w.err = "" /\ RaisesForStatus(status) THEN [w EXCEPT !.err = "HTTPError"] ELSE w

\* r.raise_for_status() on the response just received
Checked(w) == Bind(w, LAMBDA w1 : raise_for_status(w1, w1.status))

create_object(w, patient_id, object_class, object_obj) ==
    Bind(Checked(Request(w, "POST", ObjectsUrl(patient_id), object_class,
                         FormData(object_obj))), LAMBDA w2 :
    IF w2.err # "" THEN w2
    ELSE [w2 EXCEPT !.ret = RetStr(<<LastSegment(w2.location)>>)])

set_object(w, patient_id, object_class, object_num, object_obj) ==
    Checked(Request(w, "PUT", ObjectUrl(patient_id, object_class, object_num),
                    "", FormData(object_obj)))

\* collaborator_obj with its 'collaborator' entry qualified, when it has one
QualifiedCollaborator(collaborator_obj) ==
    [i \in 1..Len(collaborator_obj) |->
        IF collaborator_obj[i][1] = "collaborator"
        THEN <<"collaborator", qualify(collaborator_obj[i][2], NS_XWiki)>>
        ELSE collaborator_obj[i]]

\* self.create_object(self, patient_id, class, obj) passes the bound method
\* five arguments where it takes four: the call raises TypeError before
\* create_object runs, and no request is made.
create_collaborator(w, patient_id, collaborator_obj) ==
    LET qualified_obj == QualifiedCollaborator(collaborator_obj)
    IN  IF w.err # "" THEN w ELSE [w EXCEPT !.err = "TypeError"]

create_relative(w, patient_id, relative_obj) ==
    create_object(w, patient_id, RelativeClass, relative_obj)

create_vcf(w, patient_id, vcf_obj) ==
    create_object(w, patient_id, VcfClass, vcf_obj)

\* The URL is built from relative_num, a name that is neither a parameter nor
\* a local nor a global of the module: evaluating it raises NameError, and
\* requests.delete is never reached.
delete_object(w, patient_id, object_class, object_num) ==
    IF w.err # "" THEN w ELSE [w EXCEPT !.err = "NameError"]

delete_collaborator(w, patient_id, collaborator_num) ==
    delete_object(w, patient_id, CollaboratorClass, collaborator_num)

delete_relative(w, patient_id, relative_num) ==
    delete_object(w, patient_id, RelativeClass, relative_num)

delete_vcf(w, patient_id, vcf_num) ==
    delete_object(w, patient_id, VcfClass, vcf_num)

set(w, patient_id, patient_obj) ==
    set_object(w, patient_id, PatientClass, ObjectZero, patient_obj)

\* owner_name is computed and not used: the form carries owner as given.
set_owner(w, patient_id, owner) ==
    LET owner_name == qualify(owner, NS_XWiki)
    IN  set_object(w, patient_id, OwnerClass, ObjectZero, << <<"owner", owner>> >>)

\* A plausible slip: an existing binding is created anew instead of updated.
set_study_always_creates(w, patient_id, study) ==
    LET url == ObjectUrl(patient_id, StudyBindingClass, ObjectZero) IN
    Bind(Request(w, "GET", url, "", <<>>), LAMBDA r :
    IF r.err # "" THEN r
    ELSE IF r.status = NOT_FOUND_404 THEN
        IF study = None THEN r
        ELSE [create_object(r, patient_id, StudyBindingClass,
                            << <<"studyReference", qualify(study, NS_Studies)>> >>)
                 EXCEPT !.ret = RetNone]
    ELSE Bind(raise_for_status(r, r.status), LAMBDA w2 :
        IF w2.err # "" THEN w2
        ELSE IF study = None THEN
            \* the DELETE's response is dropped; r is still the GET's
            raise_for_status(Request(w2, "DELETE", url, "", <<>>), r.status)
        ELSE [create_object(w2, patient_id, StudyBindingClass,
                             << <<"studyReference", qualify(study, NS_Studies)>> >>)
                  EXCEPT !.ret = RetNone]))

set_study(w, patient_id, study) ==
    LET url == ObjectUrl(patient_id, StudyBindingClass, ObjectZero) IN
    Bind(Request(w, "GET", url, "", <<>>), LAMBDA r :
    IF r.err # "" THEN r
    ELSE IF r.status = NOT_FOUND_404 THEN
        IF study = None THEN r
        ELSE [create_object(r, patient_id, StudyBindingClass,
                            << <<"studyReference", qualify(study, NS_Studies)>> >>)
                 EXCEPT !.ret = RetNone]
    ELSE Bind(raise_for_status(r, r.status), LAMBDA w2 :
        IF w2.err # "" THEN w2
        ELSE IF study = None THEN
            \* the DELETE's response is dropped; r is still the GET's
            raise_for_status(Request(w2, "DELETE", url, "", <<>>), r.status)
        ELSE Checked(Request(w2, "PUT", url, "",
                             << <<PropKey("studyReference"),
                                  qualify(study, NS_Studies)>> >>))))

get_study(w, patient_id) ==
    LET url == ObjectUrl(patient_id, StudyBindingClass, ObjectZero) IN
    Bind(Request(w, "GET", url, "", <<>>), LAMBDA r :
    IF r.err # "" THEN r
    ELSE IF r.status = NOT_FOUND_404 THEN [r EXCEPT !.ret = RetNone]
    ELSE Bind(raise_for_status(r, r.status), LAMBDA w2 :
        IF w2.err # "" THEN w2
        ELSE IF w2.body = None \/ w2.body = <<>>
             THEN [w2 EXCEPT !.ret = RetStr(<<>>)]
             ELSE Bind(unqualify(w2.body, NS_Studies), LAMBDA u :
                  [w2 EXCEPT !.ret = IF u = None THEN RetNone ELSE RetStr(u)])))

\* The content-type headers a response may carry, by their parts.
ContentTypes ==
    { <<"application/json">>, <<"application/json", ";", "charset=UTF-8">>,
      <<"application/xml">>, <<"application/xml", ";", "charset=UTF-8">>,
      <<"text/html", ";", "charset=UTF-8">>, <<"text/plain">> }

\* A plausible slip: the header is compared whole, parameters included.
MediaType_whole_header(header) == header

\* r.headers['content-type'].split(';')[0]
MediaType(header) ==
    IF \E i \in 1..Len(header) : header[i] = ";"
    THEN SubSeq(header, 1,
                (CHOOSE i \in 1..Len(header) :
                    header[i] = ";" /\ \A j \in 1..(i - 1) : header[j] # ";") - 1)
    ELSE header

\* What the server may answer to a lookup by external ID: a status, a content
\* type, and a body of which json.loads(r.text)['id'] is id and the
\* alternatives/patient/id elements are alternatives.
EidStatuses ==
    {OK_200, MULTIPLE_CHOICES_300, NOT_FOUND_404, FORBIDDEN_403, SERVER_ERROR_500}

EidBodies ==
    { [id |-> PatientIdSeq[1], alternatives |-> <<>>],
      [id |-> PatientIdSeq[2], alternatives |-> <<PatientIdSeq[2], PatientIdSeq[1]>>] }

EidResponses ==
    { [status |-> st, content_type |-> ct, body |-> b] :
        st \in EidStatuses, ct \in ContentTypes, b \in EidBodies }

NoResponse ==
    [status |-> 0, content_type |-> <<>>, body |-> [id |-> "", alternatives |-> <<>>]]

ExternalIds == {"E1"}

get_id(w, external_id, r) ==
    Bind([w EXCEPT !.log = Append(@, Call(w, "GET", EidUrl(external_id), "",
                                          <<>>, r.status, 0)),
                   !.status = r.status], LAMBDA w1 :
    IF w1.status = NOT_FOUND_404 THEN [w1 EXCEPT !.ret = RetNone]
    ELSE Bind(raise_for_status(w1, w1.status), LAMBDA w2 :
         LET content_type == MediaType(r.content_type) IN
         IF w2.err # "" THEN w2
         ELSE IF content_type = <<"application/json">>
              THEN [w2 EXCEPT !.ret = RetStr(<<r.body.id>>)]
         ELSE IF content_type = <<"application/xml">>
              THEN [w2 EXCEPT !.ret = RetList(r.body.alternatives)]
         ELSE [w2 EXCEPT !.err = "TypeError"]))

(***************************************************************************)
(* The browser session.  self.driver reads the instance's attribute when   *)
(* one was assigned and the class attribute PhenoTipsBot.driver otherwise. *)
(* A session is a number, its index in sessions; 0 is None.                *)
(***************************************************************************)
Clients == {"bot1", "bot2"}

DriverOf(w) ==
    IF w.instDriver[w.client] # 0 THEN w.instDriver[w.client] ELSE w.classDriver

\* 'Basic ' + b64encode(username + ':' + password) of the client's own auth
BasicAuth(client) == <<"Basic", client>>

ScriptArg(name) == <<"argument", name>>

\* One call of selenium: the failAt-th call of the operation raises.
BrowserCall(w, name, url, what, form, session) ==
    IF w.err # "" THEN w
    ELSE [w EXCEPT !.log = Append(@, Call(w, name, url, what, form, 0, session)),
                   !.err = IF Len(w.log) + 1 = w.failAt
                           THEN "WebDriverException" ELSE ""]

\* A plausible slip: the session is stored on the class, PhenoTipsBot.driver,
\* and all instances share it.
init_phantom_on_class(w) ==
    IF w.err # "" \/ DriverOf(w) # 0 THEN w
    ELSE LET id == Len(w.sessions) + 1 IN
         Bind(BrowserCall([w EXCEPT !.cap = BasicAuth(w.client)],
                          "webdriver.PhantomJS", <<>>, "", <<>>, id), LAMBDA w2 :
         IF w2.err # "" THEN w2
         ELSE
         Bind(BrowserCall([w2 EXCEPT
                              !.sessions = Append(@, [owner |-> w2.client,
                                                      authorization |-> w2.cap]),
                              !.classDriver = id],
                          "set_window_size", <<>>, "", <<>>, id), LAMBDA w4 :
         BrowserCall(w4, "implicitly_wait", <<>>, "", <<>>, id)))

init_phantom(w) ==
    IF w.err # "" \/ DriverOf(w) # 0 THEN w
    ELSE LET id == Len(w.sessions) + 1 IN
         Bind(BrowserCall([w EXCEPT !.cap = BasicAuth(w.client)],
                          "webdriver.PhantomJS", <<>>, "", <<>>, id), LAMBDA w2 :
         IF w2.err # "" THEN w2
         ELSE
         Bind(BrowserCall([w2 EXCEPT
                              !.sessions = Append(@, [owner |-> w2.client,
                                                      authorization |-> w2.cap]),
                              !.instDriver[w2.client] = id],
                          "set_window_size", <<>>, "", <<>>, id), LAMBDA w4 :
         BrowserCall(w4, "implicitly_wait", <<>>, "", <<>>, id)))

\* The editor's save(): the server stores the pedigree of an existing patient.
SavePedigree(w, patient_id, pedigree) ==
    IF w.err = "" /\ patient_id \in PatientIds /\ w.srv[patient_id].exists
    THEN [w EXCEPT !.srv[patient_id].pedigree = pedigree]
    ELSE w

\* A plausible slip: set_pedigree returns without waiting for the save.
set_pedigree_no_save_wait(w, patient_id, pedigree_obj) ==
    Bind(init_phantom(w), LAMBDA w0 :
    Bind(BrowserCall(w0, "driver.get", PedigreeEditorUrl(patient_id), "", <<>>,
                     DriverOf(w0)), LAMBDA w1 :
    Bind(BrowserCall(w1, "find_element", <<>>, "#canvas svg", <<>>,
                     DriverOf(w1)), LAMBDA w2 :
    Bind(BrowserCall(w2, "execute_script", <<>>, "createGraphFromSerializedData",
                     << <<ScriptArg("data"), pedigree_obj>> >>, DriverOf(w2)), LAMBDA w3 :
    SavePedigree(BrowserCall(w3, "execute_script", <<>>, "save", <<>>,
                             DriverOf(w3)),
                 patient_id, pedigree_obj)))))

set_pedigree(w, patient_id, pedigree_obj) ==
    Bind(init_phantom(w), LAMBDA w0 :
    Bind(BrowserCall(w0, "driver.get", PedigreeEditorUrl(patient_id), "", <<>>,
                     DriverOf(w0)), LAMBDA w1 :
    Bind(BrowserCall(w1, "find_element", <<>>, "#canvas svg", <<>>,
                     DriverOf(w1)), LAMBDA w2 :
    Bind(BrowserCall(w2, "execute_script", <<>>, "createGraphFromSerializedData",
                     << <<ScriptArg("data"), pedigree_obj>> >>, DriverOf(w2)), LAMBDA w3 :
    Bind(SavePedigree(BrowserCall(w3, "execute_script", <<>>, "save", <<>>,
                                  DriverOf(w3)),
                      patient_id, pedigree_obj), LAMBDA w4 :
    BrowserCall(w4, "find_element", <<>>, "#action-save.menu-item", <<>>,
                DriverOf(w4)))))))

import_pedigree_ped(w, patient_id, pedigree_str) ==
    Bind(init_phantom(w), LAMBDA w0 :
    Bind(BrowserCall(w0, "driver.get", PedigreeEditorUrl(patient_id), "", <<>>,
                     DriverOf(w0)), LAMBDA w1 :
    Bind(BrowserCall(w1, "find_element", <<>>, "#canvas svg", <<>>,
                     DriverOf(w1)), LAMBDA w2 :
    Bind(BrowserCall(w2, "execute_script", <<>>, "createGraphFromImportData",
                     << <<ScriptArg("data"), pedigree_str>> >>, DriverOf(w2)), LAMBDA w3 :
    Bind(SavePedigree(BrowserCall(w3, "execute_script", <<>>, "save", <<>>,
                                  DriverOf(w3)),
                      patient_id, pedigree_str), LAMBDA w4 :
    BrowserCall(w4, "find_element", <<>>, "#action-save.menu-item", <<>>,
                DriverOf(w4)))))))

export_pedigree_ped(w, patient_id) ==
    Bind(init_phantom(w), LAMBDA w0 :
    Bind(BrowserCall(w0, "driver.get", PedigreeEditorUrl(patient_id), "", <<>>,
                     DriverOf(w0)), LAMBDA w1 :
    Bind(BrowserCall(w1, "find_element", <<>>, "#canvas svg", <<>>,
                     DriverOf(w1)), LAMBDA w2 :
    Bind(BrowserCall(w2, "execute_script", <<>>, "exportAsPED", <<>>,
                     DriverOf(w2)), LAMBDA w3 :
    IF w3.err # "" THEN w3
    ELSE [w3 EXCEPT !.ret =
             IF patient_id \in PatientIds /\ w3.srv[patient_id].pedigree # None
             THEN RetStr(w3.srv[patient_id].pedigree)
             ELSE RetStr(<<>>)]))))

\* if x: for a string or None
Truthy(x) == x # None /\ x # <<>>

\* if patient_obj: for a dictionary, None being the empty one here
TruthyDict(d) == Len(d) > 0

\* A plausible slip: the edit view is visited before the optional steps.
create_visits_first(w, patient_obj, study, owner, pedigree) ==
    Bind(Checked(Request(w, "POST", PatientsUrl, "", <<>>)), LAMBDA w2 :
    IF w2.err # "" THEN w2
    ELSE LET patient_id == LastSegment(w2.location) IN
    Bind(Checked(Request(w2, "GET", EditUrl(patient_id), "", <<>>)),
         LAMBDA w8 :
    Bind(IF TruthyDict(patient_obj) THEN set(w8, patient_id, patient_obj) ELSE w8,
         LAMBDA w3 :
    Bind(IF Truthy(study) THEN set_study(w3, patient_id, study) ELSE w3,
         LAMBDA w4 :
    Bind(IF Truthy(owner) THEN set_owner(w4, patient_id, owner) ELSE w4,
         LAMBDA w5 :
    Bind(IF Truthy(pedigree) THEN set_pedigree(w5, patient_id, pedigree) ELSE w5,
         LAMBDA w6 :
    IF w6.err # "" THEN w6
    ELSE [w6 EXCEPT !.ret = RetStr(<<patient_id>>)]))))))

create(w, patient_obj, study, owner, pedigree) ==
    Bind(Checked(Request(w, "POST", PatientsUrl, "", <<>>)), LAMBDA w2 :
    IF w2.err # "" THEN w2
    ELSE LET patient_id == LastSegment(w2.location) IN
    Bind(IF TruthyDict(patient_obj) THEN set(w2, patient_id, patient_obj) ELSE w2,
         LAMBDA w3 :
    Bind(IF Truthy(study) THEN set_study(w3, patient_id, study) ELSE w3,
         LAMBDA w4 :
    Bind(IF Truthy(owner) THEN set_owner(w4, patient_id, owner) ELSE w4,
         LAMBDA w5 :
    Bind(IF Truthy(pedigree) THEN set_pedigree(w5, patient_id, pedigree) ELSE w5,
         LAMBDA w6 :
    Bind(Checked(Request(w6, "GET", EditUrl(patient_id), "", <<>>)),
         LAMBDA w8 :
    IF w8.err # "" THEN w8
    ELSE [w8 EXCEPT !.ret = RetStr(<<patient_id>>)]))))))

(***************************************************************************)
(* The arguments the operations are called with                            *)
(***************************************************************************)
StudyArgs == { None, <<>>, <<"s">> }
OwnerArgs == { None, <<"u">> }
PatientObjs == { <<>>, << <<"first_name", <<"A", "n", "n">>>> >> }
Pedigrees == { None, <<"g">> }

CollaboratorObj == << <<"collaborator", <<"u">>>>, <<"access", <<"e", "d", "i", "t">>>> >>
RelativeObj == << <<"relative_type", <<"c", "h", "i", "l", "d">>>> >>
VcfObj == << <<"filename", <<"a", ".", "v", "c", "f">>>> >>

NoArgs == [patient_obj |-> <<>>, study |-> None, owner |-> None, pedigree |-> None]

\* The faults: none (failAt 0), or the failAt-th call of the operation fails.
\* calls is what the operation does when nothing fails: a fault at a later
\* position than its last call is no fault.
NoFault == <<0, SERVER_ERROR_500>>
Faults(calls) == { NoFault } \cup ((1..Len(calls)) \X FaultStatuses)

\* The world an operation of client c starts in.
World(c, fault) ==
    [srv |-> srv, instDriver |-> instDriver, classDriver |-> classDriver,
     sessions |-> sessions, cap |-> cap, client |-> c,
     failAt |-> fault[1], failStatus |-> fault[2],
     log |-> <<>>, err |-> "", ret |-> RetNone,
     status |-> 0, location |-> <<>>, body |-> None]

\* The operation is over: the world it leaves, and the record of it.
Finish(op, c, p, args, r, w) ==
    /\ srv' = w.srv
    /\ instDriver' = w.instDriver
    /\ classDriver' = w.classDriver
    /\ sessions' = w.sessions
    /\ cap' = w.cap
    /\ last' = [op |-> op, client |-> c, patient |-> p, args |-> args,
                response |-> r,
                before |-> IF p \in PatientIds THEN srv[p] ELSE NoPatient,
                log |-> w.log, err |-> w.err,
                ret |-> IF w.err # "" THEN RetNone ELSE w.ret]

NoLast ==
    [op |-> "", client |-> "", patient |-> "", args |-> NoArgs,
     response |-> NoResponse, before |-> NoPatient, log |-> <<>>, err |-> "",
     ret |-> RetNone]

\* No client exists yet.
ClientIdle ==
    /\ srv = [p \in PatientIds |-> NoPatient]
    /\ instDriver = [c \in Clients |-> 0]
    /\ classDriver = 0
    /\ sessions = <<>>
    /\ cap = None
    /\ last = NoLast

(***************************************************************************)
(* export_patients (src/export-csv.py)                                     *)
(***************************************************************************)

\* export_patients is not running.
ExportIdle ==
    /\ patient_ids = <<>>
    /\ classProps = <<>>
    /\ prop_names = None
    /\ pos = 0
    /\ count = 0
    /\ n_exported = 0
    /\ out_file = <<>>
    /\ etrace = <<>>
    /\ ret = None
    /\ epc = "idle"

(***************************************************************************)
(* The names qualify and unqualify are applied to: concatenations of at    *)
(* most MaxTokens of the tokens below, so that bare names, names with a    *)
(* '.' or a ':' in them, and half and fully qualified names all occur.     *)
(***************************************************************************)
MaxTokens == 3

NameTokens ==
    { <<"a">>, <<".">>, <<":">>, XWIKI_COLON, NS_XWiki \o DOT, NS_Studies \o DOT }

RECURSIVE NamesUpTo(_)
NamesUpTo(k) ==
    IF k = 0 THEN { <<>> }
    ELSE LET S == NamesUpTo(k - 1)
         IN  S \cup { s \o t : s \in S, t \in NameTokens }

Names == NamesUpTo(MaxTokens)

\* No name is being qualified.
NamesIdle ==
    /\ pagename = <<>>
    /\ namespace = NS_XWiki
    /\ qualified = None
    /\ requalified = None
    /\ unqualified = None
    /\ npc = "idle"

NamesInit ==
    /\ ExportIdle
    /\ ClientIdle
    /\ pagename \in Names
    /\ namespace \in Namespaces
    /\ qualified = None
    /\ requalified = None
    /\ unqualified = None
    /\ npc = "input"

Qualify ==
    /\ npc = "input"
    /\ qualified' = qualify(pagename, namespace)
    /\ npc' = "qualified"
    /\ UNCHANGED <<pagename, namespace, requalified, unqualified>>
    /\ UNCHANGED <<exportVars, clientVars>>

QualifyAgain ==
    /\ npc = "qualified"
    /\ requalified' = qualify(qualified, namespace)
    /\ npc' = "requalified"
    /\ UNCHANGED <<pagename, namespace, qualified, unqualified>>
    /\ UNCHANGED <<exportVars, clientVars>>

Unqualify ==
    /\ npc = "qualified"
    /\ unqualified' = unqualify(qualified, namespace)
    /\ npc' = "unqualified"
    /\ UNCHANGED <<pagename, namespace, qualified, requalified>>
    /\ UNCHANGED <<exportVars, clientVars>>

NamesNext == Qualify \/ QualifyAgain \/ Unqualify

SpecNames == NamesInit /\ [][NamesNext]_vars

(***************************************************************************)
(* export_patients: the inputs, the server it reads, and its steps         *)
(***************************************************************************)
\* The property names of PhenoTips.PatientClass, and the patients on the server.
PatientProps == {"first_name", "last_name", "external_id"}
ExportIds == {"P0000001", "P0000002"}

\* The longest list of patient IDs handed to export_patients.
MaxExport == 3

\* The value the server holds for property prop of patient p: one per cell, so
\* that a row tells which patient and which columns it was made from.
CellValue(p, prop) == <<p, prop>>

\* bot.get(patient_id), when it succeeds: get_object's dictionary of the
\* patient's PatientClass object, which holds every property of the class.
PatientBag(p) == [k \in PatientProps |-> CellValue(p, k)]

\* The sequences over S without repetition, up to length n.
RECURSIVE InjectiveSeqs(_, _)
InjectiveSeqs(S, n) ==
    IF n = 0 THEN { <<>> }
    ELSE LET T == InjectiveSeqs(S, n - 1)
         IN  T \cup { s \in { Append(t, x) : t \in T, x \in S } :
                         \A i, j \in 1..Len(s) : s[i] = s[j] => i = j }

RECURSIVE SeqsUpTo(_, _)
SeqsUpTo(S, n) ==
    IF n = 0 THEN { <<>> }
    ELSE LET T == SeqsUpTo(S, n - 1)
         IN  T \cup { Append(t, x) : t \in T, x \in S }

\* list_class_properties: the keys of the OrderedDict built from the
\* <property> elements of the response, in the order of their first occurrence.
RECURSIVE OrderedKeys(_)
OrderedKeys(elements) ==
    IF elements = <<>> THEN <<>>
    ELSE LET n == Len(elements)
             front == OrderedKeys(SubSeq(elements, 1, n - 1))
         IN  IF \E i \in 1..Len(front) : front[i] = elements[n]
             THEN front
             ELSE Append(front, elements[n])

\* A plausible slip: the row is built from the properties in sorted order
\* (a dict's keys) instead of prop_names' order; here: prop_names reversed.
ExportRowOf_other_order(patient, names) ==
    [j \in 1..Len(names) |-> patient[names[Len(names) + 1 - j]]]

\* The row of one patient: for prop_name in prop_names: row.append(patient[prop_name])
ExportRowOf(patient, names) ==
    [j \in 1..Len(names) |-> patient[names[j]]]

\* A plausible slip: progress_callback is called after count += 1.
ProgressArg_after_increment(cnt) == cnt + 1

\* The value handed to progress_callback when local count is cnt.
ProgressArg(cnt) == cnt

Event(kind, n, id) == [kind |-> kind, n |-> n, id |-> id]

ExportInit ==
    /\ NamesIdle
    /\ ClientIdle
    /\ patient_ids \in SeqsUpTo(ExportIds, MaxExport)
    /\ classProps \in InjectiveSeqs(PatientProps, Cardinality(PatientProps))
    /\ prop_names = None
    /\ pos = 0
    /\ count = 0
    /\ n_exported = 0
    /\ out_file = <<>>
    /\ etrace = <<>>
    /\ ret = None
    /\ epc = "start"

\* Lines 33-40: the schema is fetched and the header row written.
ExportBegin ==
    /\ epc = "start"
    /\ prop_names' = OrderedKeys(classProps)
    /\ out_file' = Append(out_file, OrderedKeys(classProps))
    /\ etrace' = etrace \o <<Event("schema", 0, ""), Event("header", 0, "")>>
    /\ epc' = "loop"
    /\ UNCHANGED <<patient_ids, classProps, pos, count, n_exported, ret>>
    /\ UNCHANGED <<namesVars, clientVars>>

\* Line 37: list_patient_class_properties raises (raise_for_status).
ExportSchemaFails ==
    /\ epc = "start"
    /\ etrace' = Append(etrace, Event("schema", 0, ""))
    /\ epc' = "raised"
    /\ UNCHANGED <<patient_ids, classProps, prop_names, pos, count, n_exported,
                   out_file, ret>>
    /\ UNCHANGED <<namesVars, clientVars>>

\* Lines 42-44: the loop takes the next ID, calls progress_callback, counts.
ExportProgress ==
    /\ epc = "loop"
    /\ pos < Len(patient_ids)
    /\ pos' = pos + 1
    /\ etrace' = Append(etrace, Event("progress", ProgressArg(count), ""))
    /\ count' = count + 1
    /\ epc' = "fetch"
    /\ UNCHANGED <<patient_ids, classProps, prop_names, n_exported, out_file, ret>>
    /\ UNCHANGED <<namesVars, clientVars>>

\* A plausible slip: a failed fetch is swallowed and the loop goes on.
ExportGetFails_swallowed ==
    /\ epc = "fetch"
    /\ etrace' = Append(etrace, Event("get", pos - 1, patient_ids[pos]))
    /\ epc' = "loop"
    /\ UNCHANGED <<patient_ids, classProps, prop_names, pos, count, n_exported,
                   out_file, ret>>
    /\ UNCHANGED <<namesVars, clientVars>>

\* Line 46: bot.get raises; the exception leaves export_patients.
ExportGetFails ==
    /\ epc = "fetch"
    /\ etrace' = Append(etrace, Event("get", pos - 1, patient_ids[pos]))
    /\ epc' = "raised"
    /\ UNCHANGED <<patient_ids, classProps, prop_names, pos, count, n_exported,
                   out_file, ret>>
    /\ UNCHANGED <<namesVars, clientVars>>

\* Lines 46-51: the patient is fetched, its row written and counted.
ExportRow ==
    /\ epc = "fetch"
    /\ LET patient_id == patient_ids[pos]
           patient == PatientBag(patient_id)
       IN  /\ out_file' = Append(out_file, ExportRowOf(patient, prop_names))
           /\ etrace' = etrace \o <<Event("get", pos - 1, patient_id),
                                    Event("row", pos - 1, patient_id)>>
    /\ n_exported' = n_exported + 1
    /\ epc' = "loop"
    /\ UNCHANGED <<patient_ids, classProps, prop_names, pos, count, ret>>
    /\ UNCHANGED <<namesVars, clientVars>>

\* Line 53: the loop is over; n_exported is returned.
ExportReturn ==
    /\ epc = "loop"
    /\ pos = Len(patient_ids)
    /\ ret' = n_exported
    /\ epc' = "returned"
    /\ UNCHANGED <<patient_ids, classProps, prop_names, pos, count, n_exported,
                   out_file, etrace>>
    /\ UNCHANGED <<namesVars, clientVars>>

ExportNext ==
    \/ ExportBegin
    \/ ExportSchemaFails
    \/ ExportProgress
    \/ ExportGetFails
    \/ ExportRow
    \/ ExportReturn

SpecExport == ExportInit /\ [][ExportNext]_vars

(***************************************************************************)
(* The REST operations on the patients of a server                         *)
(***************************************************************************)
ClientInit ==
    /\ NamesIdle
    /\ ExportIdle
    /\ srv \in [PatientIds -> {NoPatient, NewPatient}]
    /\ instDriver = [c \in Clients |-> 0]
    /\ classDriver = 0
    /\ sessions = <<>>
    /\ cap = None
    /\ last = NoLast

Set(c, p, obj) ==
    /\ \E f \in Faults(Bind(set(World(c, NoFault), p, obj), LAMBDA w : w.log)) :
          \E w \in { set(World(c, f), p, obj) } :
              Finish("set", c, p, [NoArgs EXCEPT !.patient_obj = obj], NoResponse, w)
    /\ UNCHANGED <<namesVars, exportVars>>

SetOwner(c, p, owner) ==
    /\ \E f \in Faults(Bind(set_owner(World(c, NoFault), p, owner), LAMBDA w : w.log)) :
          \E w \in { set_owner(World(c, f), p, owner) } :
              Finish("set_owner", c, p, [NoArgs EXCEPT !.owner = owner],
                     NoResponse, w)
    /\ UNCHANGED <<namesVars, exportVars>>

SetStudy(c, p, study) ==
    /\ \E f \in Faults(Bind(set_study(World(c, NoFault), p, study), LAMBDA w : w.log)) :
          \E w \in { set_study(World(c, f), p, study) } :
              Finish("set_study", c, p, [NoArgs EXCEPT !.study = study],
                     NoResponse, w)
    /\ UNCHANGED <<namesVars, exportVars>>

GetStudy(c, p) ==
    /\ \E f \in Faults(Bind(get_study(World(c, NoFault), p), LAMBDA w : w.log)) :
          \E w \in { get_study(World(c, f), p) } :
              Finish("get_study", c, p, NoArgs, NoResponse, w)
    /\ UNCHANGED <<namesVars, exportVars>>

GetId(c, eid) ==
    /\ \E r \in EidResponses :
          \E w \in { get_id(World(c, NoFault), eid, r) } :
              Finish("get_id", c, eid, NoArgs, r, w)
    /\ UNCHANGED <<namesVars, exportVars>>

ClientNext ==
    \E c \in Clients :
        \/ \E p \in PatientIds, obj \in PatientObjs \ {<<>>} : Set(c, p, obj)
        \/ \E p \in PatientIds, owner \in OwnerArgs \ {None} : SetOwner(c, p, owner)
        \/ \E p \in PatientIds, study \in StudyArgs : SetStudy(c, p, study)
        \/ \E p \in PatientIds : GetStudy(c, p)

Spec == ClientInit /\ [][ClientNext]_vars

(***************************************************************************)
(* The lookup by external ID, whatever the server answers                  *)
(***************************************************************************)
LookupInit == NamesIdle /\ ExportIdle /\ ClientIdle

LookupNext == \E c \in Clients, eid \in ExternalIds : GetId(c, eid)

SpecLookup == LookupInit /\ [][LookupNext]_vars

(***************************************************************************)
(* create on a server that starts without patients                         *)
(***************************************************************************)
CreateInit == NamesIdle /\ ExportIdle /\ ClientIdle

\* create is called while the server has room for one more patient (the
\* server holds at most Len(PatientIdSeq) of them).
Create(c, patient_obj, study, owner, pedigree) ==
    /\ { p \in PatientIds : ~srv[p].exists } # {}
    /\ \E f \in Faults(Bind(create(World(c, NoFault), patient_obj, study, owner, pedigree), LAMBDA w : w.log)) :
          \E w \in { create(World(c, f), patient_obj, study, owner, pedigree) } :
              Finish("create", c, "",
                     [patient_obj |-> patient_obj, study |-> study,
                      owner |-> owner, pedigree |-> pedigree],
                     NoResponse, w)
    /\ UNCHANGED <<namesVars, exportVars>>

\* The client that calls create.
Creator == "bot1"

CreateNext ==
    \E c \in {Creator}, patient_obj \in PatientObjs, study \in StudyArgs,
       owner \in OwnerArgs, pedigree \in Pedigrees :
        Create(c, patient_obj, study, owner, pedigree)

SpecCreate == CreateInit /\ [][CreateNext]_vars

(***************************************************************************)
(* The browser-dependent operations of several clients                     *)
(***************************************************************************)
BrowserInit ==
    /\ NamesIdle
    /\ ExportIdle
    /\ srv = [p \in PatientIds |-> NewPatient]
    /\ instDriver = [c \in Clients |-> 0]
    /\ classDriver = 0
    /\ sessions = <<>>
    /\ cap = None
    /\ last = NoLast

SetPedigree(c, p, pedigree) ==
    /\ \E f \in Faults(Bind(set_pedigree(World(c, NoFault), p, pedigree), LAMBDA w : w.log)) :
          \E w \in { set_pedigree(World(c, f), p, pedigree) } :
              Finish("set_pedigree", c, p, [NoArgs EXCEPT !.pedigree = pedigree],
                     NoResponse, w)
    /\ UNCHANGED <<namesVars, exportVars>>

ImportPedigreePed(c, p, pedigree_str) ==
    /\ \E f \in Faults(Bind(import_pedigree_ped(World(c, NoFault), p, pedigree_str), LAMBDA w : w.log)) :
          \E w \in { import_pedigree_ped(World(c, f), p, pedigree_str) } :
              Finish("import_pedigree_ped", c, p,
                     [NoArgs EXCEPT !.pedigree = pedigree_str], NoResponse, w)
    /\ UNCHANGED <<namesVars, exportVars>>

ExportPedigreePed(c, p) ==
    /\ \E f \in Faults(Bind(export_pedigree_ped(World(c, NoFault), p), LAMBDA w : w.log)) :
          \E w \in { export_pedigree_ped(World(c, f), p) } :
              Finish("export_pedigree_ped", c, p, NoArgs, NoResponse, w)
    /\ UNCHANGED <<namesVars, exportVars>>

BrowserNext ==
    \E c \in Clients, p \in PatientIds :
        \/ \E pedigree \in Pedigrees \ {None} : SetPedigree(c, p, pedigree)
        \/ \E pedigree_str \in Pedigrees \ {None} : ImportPedigreePed(c, p, pedigree_str)
        \/ ExportPedigreePed(c, p)

SpecBrowser == BrowserInit /\ [][BrowserNext]_vars

(***************************************************************************)
(* The collaborator, relative and VCF objects of the patients              *)
(***************************************************************************)
\* The most objects a patient is given.
MaxObjects == 2

\* The numbers a delete is called with.
ObjectNums == { NumStr(n) : n \in 0..(MaxObjects - 1) }

ObjectsInit == BrowserInit

CreateCollaborator(c, p, obj) ==
    /\ Len(srv[p].objects) < MaxObjects
    /\ \E f \in Faults(Bind(create_collaborator(World(c, NoFault), p, obj), LAMBDA w : w.log)) :
          \E w \in { create_collaborator(World(c, f), p, obj) } :
              Finish("create_collaborator", c, p, [NoArgs EXCEPT !.patient_obj = obj],
                     NoResponse, w)
    /\ UNCHANGED <<namesVars, exportVars>>

CreateRelative(c, p, obj) ==
    /\ Len(srv[p].objects) < MaxObjects
    /\ \E f \in Faults(Bind(create_relative(World(c, NoFault), p, obj), LAMBDA w : w.log)) :
          \E w \in { create_relative(World(c, f), p, obj) } :
              Finish("create_relative", c, p, [NoArgs EXCEPT !.patient_obj = obj],
                     NoResponse, w)
    /\ UNCHANGED <<namesVars, exportVars>>

CreateVcf(c, p, obj) ==
    /\ Len(srv[p].objects) < MaxObjects
    /\ \E f \in Faults(Bind(create_vcf(World(c, NoFault), p, obj), LAMBDA w : w.log)) :
          \E w \in { create_vcf(World(c, f), p, obj) } :
              Finish("create_vcf", c, p, [NoArgs EXCEPT !.patient_obj = obj],
                     NoResponse, w)
    /\ UNCHANGED <<namesVars, exportVars>>

\* The number a delete was called with is kept in the record of the call in
\* the place of the study, the only string argument of the record.
DeleteCollaborator(c, p, num) ==
    /\ \E f \in Faults(Bind(delete_collaborator(World(c, NoFault), p, num), LAMBDA w : w.log)) :
          \E w \in { delete_collaborator(World(c, f), p, num) } :
              Finish("delete_collaborator", c, p, [NoArgs EXCEPT !.study = <<num>>],
                     NoResponse, w)
    /\ UNCHANGED <<namesVars, exportVars>>

DeleteRelative(c, p, num) ==
    /\ \E f \in Faults(Bind(delete_relative(World(c, NoFault), p, num), LAMBDA w : w.log)) :
          \E w \in { delete_relative(World(c, f), p, num) } :
              Finish("delete_relative", c, p, [NoArgs EXCEPT !.study = <<num>>],
                     NoResponse, w)
    /\ UNCHANGED <<namesVars, exportVars>>

DeleteVcf(c, p, num) ==
    /\ \E f \in Faults(Bind(delete_vcf(World(c, NoFault), p, num), LAMBDA w : w.log)) :
          \E w \in { delete_vcf(World(c, f), p, num) } :
              Finish("delete_vcf", c, p, [NoArgs EXCEPT !.study = <<num>>],
                     NoResponse, w)
    /\ UNCHANGED <<namesVars, exportVars>>

ObjectsNext ==
    \E c \in Clients, p \in PatientIds :
        \/ CreateCollaborator(c, p, CollaboratorObj)
        \/ CreateRelative(c, p, RelativeObj)
        \/ CreateVcf(c, p, VcfObj)
        \/ \E num \in ObjectNums : DeleteCollaborator(c, p, num)
        \/ \E num \in ObjectNums : DeleteRelative(c, p, num)
        \/ \E num \in ObjectNums : DeleteVcf(c, p, num)

SpecObjects == ObjectsInit /\ [][ObjectsNext]_vars

(***************************************************************************)
(* Claims about qualify and unqualify                                      *)
(***************************************************************************)

\* C1 as stated: for every name n, the empty name and names with a '.' or a
\* ':' included, and every namespace ns, unqualify(qualify(n, ns), ns) = n.
C1_RoundTripAllNames ==
    npc = "unqualified" => unqualified = pagename

\* The names the round trip gives back: non-empty, no ':', not starting
\* with the namespace followed by '.'.
RoundTrips(n, ns) ==
    /\ n # <<>>
    /\ ~Contains(n, ":")
    /\ ~StartsWith(n, ns \o DOT)

\* C1 amended: unqualify(qualify(n, ns), ns) = n exactly for the non-empty
\* names n that hold no ':' and do not start with ns followed by '.'; in
\* particular for every non-empty bare name without '.' and ':'.
C1_RoundTripWellFormed ==
    npc = "unqualified" =>
        ((unqualified = pagename) <=> RoundTrips(pagename, namespace))

\* A bare name went through qualify and unqualify and came back.
C1_Witness ==
    /\ npc = "unqualified"
    /\ pagename = <<"a">>
    /\ namespace = NS_Studies
    /\ qualified = XWIKI_COLON \o NS_Studies \o DOT \o <<"a">>
    /\ unqualified = <<"a">>

\* C2: qualify is idempotent: for every name n and namespace ns,
\* qualify(qualify(n, ns), ns) = qualify(n, ns).
C2_QualifyIdempotent ==
    npc = "requalified" => requalified = qualified

\* A bare name was qualified, and qualifying the result changed nothing.
C2_Witness ==
    /\ npc = "requalified"
    /\ pagename = <<"a">>
    /\ qualified = XWIKI_COLON \o namespace \o DOT \o <<"a">>
    /\ requalified = qualified

(***************************************************************************)
(* Claims about export_patients                                            *)
(***************************************************************************)

\* The positions of the events of one kind in etrace.
EventsOf(kind) == { j \in 1..Len(etrace) : etrace[j].kind = kind }

\* The row the server's data gives for patient p, in the schema's order.
ServerRow(p) == [j \in 1..Len(classProps) |-> CellValue(p, classProps[j])]

\* C3: when every fetch succeeds, the number of data rows written and the
\* returned count both equal the number of input patient IDs; when a fetch
\* fails, the export ends at that patient: nothing is returned, nothing is
\* done after the failed fetch, and out_file holds the header and exactly the
\* rows of the patients before the failed one.
C3_RowCountAndAbort ==
    /\ epc = "returned" =>
          /\ Len(out_file) = 1 + Len(patient_ids)
          /\ ret = Len(patient_ids)
    /\ epc = "raised" =>
          /\ ret = None
          /\ etrace[Len(etrace)].kind \in {"schema", "get"}
          /\ etrace[Len(etrace)].kind = "schema" => out_file = <<>>
          /\ etrace[Len(etrace)].kind = "get" =>
                /\ Len(out_file) = pos
                /\ out_file[1] = prop_names
                /\ \A i \in 1..(pos - 1) : out_file[i + 1] = ServerRow(patient_ids[i])
                /\ etrace[Len(etrace)].n = pos - 1

\* The fetch of the second of three patients failed: the header and the first
\* patient's row are in out_file, and nothing else.
C3_Witness ==
    /\ epc = "raised"
    /\ Len(patient_ids) = 3
    /\ pos = 2
    /\ Len(out_file) = 2
    /\ out_file[2] = ServerRow(patient_ids[1])

\* C4: progress_callback is called once per patient ID taken from the list,
\* with the values 0, 1, ..., in that order (all of 0..n-1 when the export
\* returns); the call with value i comes right before the fetch of the i-th
\* patient (0-based) and right after the row of patient i-1 was written.
C4_ProgressOrder ==
    /\ \A j \in EventsOf("progress") :
          /\ etrace[j].n = Cardinality({ k \in EventsOf("progress") : k < j })
          /\ etrace[j].n < Len(patient_ids)
          /\ etrace[j].n > 0 => etrace[j - 1] = Event("row", etrace[j].n - 1,
                                                     patient_ids[etrace[j].n])
          /\ etrace[j].n = 0 => EventsOf("get") \cap 1..j = {}
          /\ j < Len(etrace) =>
                etrace[j + 1] = Event("get", etrace[j].n, patient_ids[etrace[j].n + 1])
    /\ \A j \in EventsOf("get") :
          j > 1 /\ etrace[j - 1] = Event("progress", etrace[j].n, "")
    /\ epc = "returned" =>
          { etrace[j].n : j \in EventsOf("progress") } = 0..(Len(patient_ids) - 1)

\* Three patients were exported: the callback saw 0, 1, 2, each before the
\* fetch of its patient.
C4_Witness ==
    /\ epc = "returned"
    /\ Len(patient_ids) = 3
    /\ Cardinality(EventsOf("progress")) = 3
    /\ \E j \in EventsOf("progress") :
          etrace[j].n = 2 /\ etrace[j + 1].kind = "get" /\ etrace[j - 1].kind = "row"

\* C5: the schema is fetched once, before anything else; the header row is
\* written first and holds the property names in the order the schema fetch
\* returned them; every data row holds its patient's values in that column
\* order, one row per patient in input order.
C5_ColumnOrder ==
    /\ Cardinality(EventsOf("schema")) = (IF epc = "start" THEN 0 ELSE 1)
    /\ etrace # <<>> => etrace[1].kind = "schema"
    /\ \A j \in EventsOf("header") : j = 2
    /\ \A j \in EventsOf("row") : 2 \in EventsOf("header")
    /\ out_file # <<>> =>
          /\ out_file[1] = classProps
          /\ Len(out_file) = 1 + Cardinality(EventsOf("row"))
          /\ Len(out_file) <= 1 + Len(patient_ids)
          /\ \A i \in 2..Len(out_file) : out_file[i] = ServerRow(patient_ids[i - 1])

\* Two different patients were exported under a schema of three columns.
C5_Witness ==
    /\ epc = "returned"
    /\ Len(classProps) = 3
    /\ Len(patient_ids) = 2
    /\ patient_ids[1] # patient_ids[2]
    /\ out_file = <<classProps, ServerRow(patient_ids[1]), ServerRow(patient_ids[2])>>

(***************************************************************************)
(* Claims about the client's operations                                    *)
(***************************************************************************)

HttpMethods == {"GET", "POST", "PUT", "DELETE"}

Is2xx(status) == 200 <= status /\ status < 300

\* C6 as stated: get_id returns None on a 404, a single ID for a successful
\* JSON response, a list of IDs for a successful XML response, raises a
\* TypeError for any other content type of a successful response, and raises
\* an HTTP error for any other status that is not 2xx.
C6_GetIdNon2xxRaises ==
    last.op = "get_id" =>
        LET r == last.response
            media == r.content_type[1]
        IN  /\ r.status = 404 => last.err = "" /\ last.ret = RetNone
            /\ Is2xx(r.status) /\ media = "application/json" =>
                  last.err = "" /\ last.ret = RetStr(<<r.body.id>>)
            /\ Is2xx(r.status) /\ media = "application/xml" =>
                  last.err = "" /\ last.ret = RetList(r.body.alternatives)
            /\ Is2xx(r.status) /\ media \notin {"application/json", "application/xml"} =>
                  last.err = "TypeError"
            /\ ~Is2xx(r.status) /\ r.status # 404 => last.err = "HTTPError"

\* C6 amended: get_id returns None on a 404 and raises an HTTP error for any
\* other 4xx or 5xx status; for every other status, the 300 that goes with a
\* list of alternatives included, it returns a single ID for a JSON response,
\* a list of IDs for an XML response, and raises a TypeError for any other
\* content type.
C6_GetIdByStatusAndType ==
    last.op = "get_id" =>
        LET r == last.response
            media == r.content_type[1]
            failed == 400 <= r.status /\ r.status < 600
        IN  /\ Len(last.log) = 1
            /\ last.log[1].call = "GET" /\ last.log[1].url = EidUrl(last.patient)
            /\ r.status = 404 => last.err = "" /\ last.ret = RetNone
            /\ failed /\ r.status # 404 => last.err = "HTTPError"
            /\ ~failed /\ media = "application/json" =>
                  last.err = "" /\ last.ret = RetStr(<<r.body.id>>)
            /\ ~failed /\ media = "application/xml" =>
                  last.err = "" /\ last.ret = RetList(r.body.alternatives)
            /\ ~failed /\ media \notin {"application/json", "application/xml"} =>
                  last.err = "TypeError"

\* The server answered 300 with the XML list of two patients, the content
\* type carrying a charset: get_id returned the two IDs.
C6_Witness ==
    /\ last.op = "get_id"
    /\ last.response.status = 300
    /\ last.response.content_type = <<"application/xml", ";", "charset=UTF-8">>
    /\ last.err = ""
    /\ last.ret.kind = "list"
    /\ Len(last.ret.val) = 2

StudyUrl(p) == ObjectUrl(p, StudyBindingClass, ObjectZero)

\* The reference a bare study name is sent as: xwiki:Studies.<name>, the empty
\* name staying empty.
StudyRef(study) ==
    IF study = <<>> THEN <<>> ELSE XWIKI_COLON \o NS_Studies \o DOT \o study

\* C7: set_study first asks for the study binding (GET) and then makes at most
\* one more request, chosen by the case: no binding and study None: none; no
\* binding and a study: a POST creating a StudyBindingClass object that carries
\* the qualified reference; a binding and a study: a PUT to the binding, never
\* a POST; a binding and study None: a DELETE of the binding.
C7_SetStudyCases ==
    last.op = "set_study" =>
        LET log == last.log
            p == last.patient
            study == last.args.study
            had == last.before.exists /\ last.before.study # None
            form == << <<PropKey("studyReference"), StudyRef(study)>> >>
        IN  /\ Len(log) \in {1, 2}
            /\ log[1].call = "GET" /\ log[1].url = StudyUrl(p)
            /\ \A i \in 2..Len(log) : log[i].call # "GET"
            /\ log[1].status # 500 => (log[1].status = 404 <=> ~had)
            /\ log[1].status = 500 => Len(log) = 1 /\ last.err = "HTTPError"
            /\ log[1].status = 404 /\ study = None => Len(log) = 1 /\ last.err = ""
            /\ log[1].status = 404 /\ study # None =>
                  /\ Len(log) = 2
                  /\ log[2].call = "POST"
                  /\ log[2].url = ObjectsUrl(p)
                  /\ log[2].cls = StudyBindingClass
                  /\ log[2].form = form
            /\ log[1].status = 200 /\ study # None =>
                  /\ Len(log) = 2
                  /\ log[2].call = "PUT"
                  /\ log[2].url = StudyUrl(p)
                  /\ log[2].form = form
            /\ log[1].status = 200 /\ study = None =>
                  /\ Len(log) = 2
                  /\ log[2].call = "DELETE"
                  /\ log[2].url = StudyUrl(p)

\* A patient with a study binding was given another study: the binding was
\* updated with a PUT and the server holds the qualified reference.
C7_Witness ==
    /\ last.op = "set_study"
    /\ last.before.study = <<>>
    /\ last.args.study = <<"s">>
    /\ Len(last.log) = 2
    /\ last.log[2].call = "PUT"
    /\ last.log[2].status = 200
    /\ last.err = ""
    /\ srv[last.patient].study = XWIKI_COLON \o NS_Studies \o DOT \o <<"s">>

\* C8: every REST call of an operation that is answered with a status that is
\* not 2xx makes the operation raise, and is its last call (nothing is
\* retried); the one exception is a 404 to the lookup of get_study and to
\* set_study's check for the binding.  In particular a failed DELETE, PUT or
\* POST of set_study never lets set_study return normally.
C8_FailedCallAborts ==
    \A i \in 1..Len(last.log) :
        LET c == last.log[i]
            tolerated == /\ c.status = 404
                         /\ i = 1
                         /\ last.op \in {"get_study", "set_study"}
        IN  c.call \in HttpMethods /\ ~Is2xx(c.status) /\ ~tolerated =>
                last.err = "HTTPError" /\ i = Len(last.log)

(***************************************************************************)
(* Claims about create                                                     *)
(***************************************************************************)

\* The step of create a logged call belongs to, p being the new patient:
\* 1 create the empty patient, 2 set the property bag, 3 set the study,
\* 4 set the owner, 5 set the pedigree, 6 visit the edit view; 0 is a call
\* that belongs to none of them.
CreateStep(c, p) ==
    IF c.call = "POST" /\ c.url = PatientsUrl THEN 1
    ELSE IF c.call = "PUT" /\ c.url = ObjectUrl(p, PatientClass, ObjectZero) THEN 2
    ELSE IF \/ c.call \in {"GET", "PUT"} /\ c.url = StudyUrl(p)
            \/ c.call = "POST" /\ c.url = ObjectsUrl(p) /\ c.cls = StudyBindingClass
         THEN 3
    ELSE IF c.call = "PUT" /\ c.url = ObjectUrl(p, OwnerClass, ObjectZero) THEN 4
    ELSE IF c.call \notin HttpMethods THEN 5
    ELSE IF c.call = "GET" /\ c.url = EditUrl(p) THEN 6
    ELSE 0

\* Whether step k of create was asked for by the arguments.
CreateStepGiven(k, a) ==
    CASE k = 2 -> a.patient_obj # <<>>
      [] k = 3 -> a.study # None /\ a.study # <<>>
      [] k = 4 -> a.owner # None /\ a.owner # <<>>
      [] k = 5 -> a.pedigree # None /\ a.pedigree # <<>>
      [] OTHER -> TRUE

\* C9: a call of create makes its requests in the order create the empty
\* patient, set the property bag, set the study, set the owner, set the
\* pedigree, visit the edit view; an optional step is made exactly when its
\* argument is given and no earlier step failed; the patient ID is returned
\* only when no step failed; when a step fails the error propagates, the
\* failed call is the last one made, no DELETE is sent, and what the earlier
\* steps stored is still on the server.
C9_CreateOrderNoRollback ==
    [][ last'.op = "create" =>
        \A new \in { { p \in PatientIds : ~srv[p].exists /\ srv'[p].exists } } :
        \A pid \in { IF new = {} THEN "" ELSE CHOOSE p \in new : TRUE } :
        \A step \in { [i \in 1..Len(last'.log) |-> CreateStep(last'.log[i], pid)] } :
        \A stepOk \in { [i \in 1..Len(last'.log) |->
                IF last'.log[i].call \in HttpMethods
                THEN \/ Is2xx(last'.log[i].status)
                     \/ /\ last'.log[i].status = 404
                        /\ last'.log[i].call = "GET"
                        /\ step[i] = 3
                ELSE ~(i = Len(last'.log) /\ last'.err = "WebDriverException")] } :
        LET log == last'.log
            a == last'.args
            steps == { step[i] : i \in 1..Len(log) }
            done(k) == \E i \in 1..Len(log) : step[i] = k /\ stepOk[i]
        IN  /\ Len(log) >= 1 /\ step[1] = 1
            /\ \A i \in 2..Len(log) : step[i] \in 2..6
            /\ \A i, j \in 1..Len(log) : i < j => step[i] <= step[j]
            /\ Cardinality(new) = (IF stepOk[1] THEN 1 ELSE 0)
            /\ \A q \in PatientIds \ new : srv'[q] = srv[q]
            \* optional steps: only when given, never skipped
            /\ \A k \in steps : CreateStepGiven(k, a)
            /\ \A k \in 2..6 : \A i \in 1..Len(log) :
                  k < step[i] /\ CreateStepGiven(k, a) => k \in steps
            \* success
            /\ last'.err = "" =>
                  /\ \A i \in 1..Len(log) : stepOk[i]
                  /\ \A k \in 2..6 : CreateStepGiven(k, a) => k \in steps
                  /\ step[Len(log)] = 6
                  /\ last'.ret = RetStr(<<pid>>)
            /\ last'.ret # RetNone => last'.err = ""
            \* failure
            /\ last'.err # "" =>
                  /\ last'.ret = RetNone
                  /\ ~stepOk[Len(log)]
                  /\ \A i \in 1..(Len(log) - 1) : stepOk[i]
            \* no rollback
            /\ \A i \in 1..Len(log) : log[i].call # "DELETE"
            /\ pid # "" =>
                  /\ done(2) => srv'[pid].data = a.patient_obj
                  /\ (\E i \in 1..Len(log) :
                         log[i].call = "POST" /\ step[i] = 3 /\ stepOk[i])
                        => srv'[pid].study = StudyRef(a.study)
                  /\ done(4) => srv'[pid].owner # None
                  /\ (\E i \in 1..Len(log) : log[i].cls = "save" /\ stepOk[i])
                        => srv'[pid].pedigree = a.pedigree
                  /\ done(6) => srv'[pid].vcf
      ]_vars

\* create was given all four arguments and setting the owner failed: the
\* error propagated, the pedigree and the edit view were never reached, and
\* the patient, its properties and its study are on the server.
C9_Witness ==
    /\ last.op = "create"
    /\ last.args = [patient_obj |-> << <<"first_name", <<"A", "n", "n">>>> >>,
                    study |-> <<"s">>, owner |-> <<"u">>, pedigree |-> <<"g">>]
    /\ last.err = "HTTPError"
    /\ last.ret = RetNone
    /\ Len(last.log) = 5
    /\ last.log[5].call = "PUT"
    /\ last.log[5].url = ObjectUrl("P0000001", OwnerClass, ObjectZero)
    /\ last.log[5].status = 500
    /\ srv["P0000001"].exists
    /\ srv["P0000001"].data = << <<"first_name", <<"A", "n", "n">>>> >>
    /\ srv["P0000001"].study = XWIKI_COLON \o NS_Studies \o DOT \o <<"s">>
    /\ srv["P0000001"].owner = None
    /\ srv["P0000001"].pedigree = None
    /\ ~srv["P0000001"].vcf

(***************************************************************************)
(* Claims about the browser session                                        *)
(***************************************************************************)

SessionsOf(c) == { i \in 1..Len(sessions) : sessions[i].owner = c }

\* C10: over the browser-dependent operations of the clients, a client starts
\* a browser session only as the first call of an operation made while it has
\* none, and then only once; the session it has is the one all its later
\* browser calls use; no session is ever closed or replaced; and no call of a
\* client uses a session another client created.
C10_OwnSessionOnce ==
    [][ LET c == last'.client
            log == last'.log
            created == { i \in 1..Len(log) : log[i].call = "webdriver.PhantomJS" }
            failedStart == log[Len(log)].call = "webdriver.PhantomJS" /\ last'.err # ""
        IN  /\ Len(log) >= 1
            /\ created = (IF instDriver[c] = 0 THEN {1} ELSE {})
            /\ \A d \in Clients : instDriver[d] # 0 => instDriver'[d] = instDriver[d]
            /\ \A d \in Clients \ {c} : instDriver'[d] = instDriver[d]
            /\ Len(sessions') >= Len(sessions)
            /\ SubSeq(sessions', 1, Len(sessions)) = sessions
            /\ \A d \in Clients : Cardinality(SessionsOf(d)') <= 1
            /\ \A i \in 1..Len(log) : log[i].call \notin {"quit", "close"}
            /\ ~failedStart =>
                  /\ instDriver'[c] \in 1..Len(sessions')
                  /\ sessions'[instDriver'[c]].owner = c
                  /\ sessions'[instDriver'[c]].authorization = BasicAuth(c)
                  /\ \A i \in 1..Len(log) : log[i].session = instDriver'[c]
      ]_vars

\* Both clients have a session of their own, and the first client, which
\* started session 1 earlier, used it again without starting another.
C10_Witness ==
    /\ Len(sessions) = 2
    /\ instDriver["bot1"] = 1
    /\ instDriver["bot2"] = 2
    /\ sessions[1].owner = "bot1"
    /\ sessions[2].owner = "bot2"
    /\ last.client = "bot1"
    /\ last.err = ""
    /\ Len(last.log) >= 1
    /\ last.log[1].call = "driver.get"
    /\ \A i \in 1..Len(last.log) : last.log[i].session = 1

(***************************************************************************)
(* Claims about reference names in writes and reads                        *)
(***************************************************************************)

\* C11: a write that carries a reference name sends it qualified even when
\* the caller passed a bare name: set_owner puts xwiki:XWiki.<owner> in the
\* owner property, set_study puts xwiki:Studies.<study> in studyReference;
\* and a read gives the bare name back: get_study of a patient bound to
\* xwiki:Studies.<study> returns <study>.
C11_ReferencesQualified ==
    /\ last.op = "set_owner" =>
          \A i \in 1..Len(last.log) :
              last.log[i].call = "PUT" =>
                  last.log[i].form =
                      << <<PropKey("owner"),
                           XWIKI_COLON \o NS_XWiki \o DOT \o last.args.owner>> >>
    /\ last.op = "set_study" =>
          \A i \in 1..Len(last.log) :
              last.log[i].call \in {"PUT", "POST"} =>
                  last.log[i].form =
                      << <<PropKey("studyReference"), StudyRef(last.args.study)>> >>
    /\ last.op = "get_study" /\ last.err = "" =>
          \A study \in StudyArgs \ {None} :
              last.before.study = StudyRef(study) => last.ret = RetStr(study)

(***************************************************************************)
(* Claims about the order of the browser calls                             *)
(***************************************************************************)

BrowserOps == {"set_pedigree", "import_pedigree_ped", "export_pedigree_ped"}

\* The calls that start a session, in their order.
SessionStart == <<"webdriver.PhantomJS", "set_window_size", "implicitly_wait">>

PageReady == <<"find_element", "#canvas svg">>
SaveDone == <<"find_element", "#action-save.menu-item">>

\* What a logged browser call is: the call and the script or selector.
BrowserStep(c) == <<c.call, c.cls>>

\* The calls of a browser-mediated operation that saves: navigate, wait for
\* the page, run the script that loads the data, run save, wait for the save.
SavingPlan(load) ==
    << <<"driver.get", "">>, PageReady, <<"execute_script", load>>,
       <<"execute_script", "save">>, SaveDone >>

\* The calls of each operation as the claim states them: every one of them
\* ends with the wait for the save-completion element.
PlanAsStated(op) ==
    CASE op = "set_pedigree" -> SavingPlan("createGraphFromSerializedData")
      [] op = "import_pedigree_ped" -> SavingPlan("createGraphFromImportData")
      [] op = "export_pedigree_ped" ->
            << <<"driver.get", "">>, PageReady,
               <<"execute_script", "exportAsPED">>, SaveDone >>

\* The calls of each operation with the export ending at its script.
PlanAmended(op) ==
    CASE op = "set_pedigree" -> SavingPlan("createGraphFromSerializedData")
      [] op = "import_pedigree_ped" -> SavingPlan("createGraphFromImportData")
      [] op = "export_pedigree_ped" ->
            << <<"driver.get", "">>, PageReady, <<"execute_script", "exportAsPED">> >>

\* The browser calls of the last operation follow plan: the calls that start
\* a session come first and in their order, then the calls of the plan in
\* their order, to the patient's pedigree editor; all of them when the
\* operation returned, the ones up to the failing call when it raised.
FollowsPlan(plan) ==
    LET log == last.log
        n0 == Cardinality({ i \in 1..Len(log) :
                              \E k \in 1..Len(SessionStart) : log[i].call = SessionStart[k] })
        body == SubSeq(log, n0 + 1, Len(log))
    IN  /\ n0 <= Len(SessionStart)
        /\ \A i \in 1..n0 : log[i].call = SessionStart[i]
        /\ Len(body) <= Len(plan)
        /\ \A i \in 1..Len(body) : BrowserStep(body[i]) = plan[i]
        /\ Len(body) >= 1 => body[1].url = PedigreeEditorUrl(last.patient)
        /\ last.op # "export_pedigree_ped" /\ Len(body) >= 3 =>
              body[3].form = << <<ScriptArg("data"), last.args.pedigree>> >>
        /\ last.err = "" => Len(body) = Len(plan) /\ n0 \in {0, Len(SessionStart)}
        /\ last.err # "" => Len(log) >= 1
        /\ n0 \in 1..(Len(SessionStart) - 1) => Len(body) = 0 /\ last.err # ""

\* C12 as stated: each of set_pedigree, import_pedigree_ped and
\* export_pedigree_ped ensures the session, navigates to the patient's
\* pedigree editor, waits for #canvas svg, runs the editor script, and waits
\* for #action-save.menu-item before it returns.
C12_AllWaitForSave ==
    last.op \in BrowserOps => FollowsPlan(PlanAsStated(last.op))

\* C12 amended: set_pedigree and import_pedigree_ped ensure the session,
\* navigate to the patient's pedigree editor, wait for #canvas svg, run the
\* script that loads the data, run save, and wait for #action-save.menu-item
\* before they return; export_pedigree_ped ensures the session, navigates,
\* waits for #canvas svg and returns what the export script gives, with no
\* wait for the save-completion element.
C12_BrowserCallOrder ==
    last.op \in BrowserOps => FollowsPlan(PlanAmended(last.op))

\* A client without a session exported the pedigree stored earlier: it
\* started a session, and its last call was the export script.
C12_Witness ==
    /\ last.op = "export_pedigree_ped"
    /\ last.err = ""
    /\ Len(last.log) = 6
    /\ last.log[1].call = "webdriver.PhantomJS"
    /\ BrowserStep(last.log[6]) = <<"execute_script", "exportAsPED">>
    /\ last.ret = RetStr(<<"g">>)

(***************************************************************************)
(* Claims about the collaborator, relative and VCF operations              *)
(***************************************************************************)

CreateOps == {"create_collaborator", "create_relative", "create_vcf"}
DeleteOps == {"delete_collaborator", "delete_relative", "delete_vcf"}

\* The class an operation fixes.
FixedClass(op) ==
    CASE op \in {"create_collaborator", "delete_collaborator"} -> CollaboratorClass
      [] op \in {"create_relative", "delete_relative"} -> RelativeClass
      [] op \in {"create_vcf", "delete_vcf"} -> VcfClass

\* C13: create_collaborator, create_relative and create_vcf make one POST
\* that creates an object of their class on the patient and, when the server
\* accepts it, return the number of an object that is then on the server;
\* delete_collaborator, delete_relative and delete_vcf make one DELETE for
\* the object of their class with the number given, and when the server
\* accepts it that number is no longer valid.
C13_SubObjectCreateDelete ==
    /\ last.op \in CreateOps =>
          /\ Len(last.log) = 1
          /\ last.log[1].call = "POST"
          /\ last.log[1].url = ObjectsUrl(last.patient)
          /\ last.log[1].cls = FixedClass(last.op)
          /\ Is2xx(last.log[1].status) =>
                /\ last.err = ""
                /\ last.ret.kind = "str"
                /\ Len(last.ret.val) = 1
                /\ LiveObjects(srv[last.patient].objects, FixedClass(last.op),
                               last.ret.val[1]) # {}
                /\ LiveObjects(last.before.objects, FixedClass(last.op),
                               last.ret.val[1]) = {}
    /\ last.op \in DeleteOps =>
          /\ Len(last.log) = 1
          /\ last.log[1].call = "DELETE"
          /\ last.log[1].url =
                ObjectUrl(last.patient, FixedClass(last.op), last.args.study[1])
          /\ Is2xx(last.log[1].status) =>
                /\ last.err = ""
                /\ LiveObjects(srv[last.patient].objects, FixedClass(last.op),
                               last.args.study[1]) = {}
====
